---- MODULE Spec2Model ----
(***************************************************************************)
(* Model of streamlit_app.py: download_image and                           *)
(* process_excel_with_images, which rewrite =@IMAGE("url") cells of a      *)
(* workbook either to =IMAGE("url") or to an embedded image.               *)
(*                                                                         *)
(* Cell text is a sequence of one-character strings, so that re.search     *)
(* and re.sub are computed character by character as the regular           *)
(* expression engine does.                                                 *)
(***************************************************************************)
EXTENDS Integers, Sequences, FiniteSets, TLC

VARIABLES
    file_content,     \* the uploaded workbook: cells, row heights, column widths
    insert_images,    \* mode flag of the running call
    max_image_size,   \* size cap of the running call
    cells,            \* workbook[sheet].cell values, by <<sheet, row, col>>
    row_height,       \* worksheet.row_dimensions[row].height, by <<sheet, row>>
    col_width,        \* worksheet.column_dimensions[letter].width, by <<sheet, col>>
    images,           \* worksheet._images, by sheet: sequence of placements
    changes,          \* the list of change records
    temp_files,       \* the list of temp paths registered for the final cleanup
    tempFs,           \* temporary files created by the running call that exist on disk
    pc,               \* position of the call: idle, scan, embed, save, returned, raised
    idx,              \* position of the cell iteration (index into CellOrder)
    fetched,          \* result of download_image for the cell being embedded
    outcomes,         \* history: per matched cell, what the stages did
    textOnlyOutput,   \* history: workbook and changes of the last TextOnly call
    cellText,         \* matcher harness: the cell value given to the matcher
    found,            \* matcher harness: result of re.search on cellText
    replaced,         \* matcher harness: result of re.sub on cellText
    mpc               \* matcher harness: position

vars == << file_content, insert_images, max_image_size, cells, row_height,
           col_width, images, changes, temp_files, tempFs, pc, idx, fetched,
           outcomes, textOnlyOutput, cellText, found, replaced, mpc >>

wbvars == << file_content, insert_images, max_image_size, cells, row_height,
             col_width, images, changes, temp_files, tempFs, pc, idx, fetched,
             outcomes, textOnlyOutput >>

mvars == << cellText, found, replaced, mpc >>

(***************************************************************************)
(* Bounds                                                                  *)
(***************************************************************************)
NumSheets == 2
NumRows == 1
NumCols == 2
MaxFilled == 2
MaxWs == 1
MaxUrlLen == 1

(***************************************************************************)
(* Characters and the regular expression                                   *)
(***************************************************************************)
Whitespace == {" ", "\t"}
Quotes == {"\"", "'"}

\* re.IGNORECASE folds case before comparing a literal
Lower(c) ==
    CASE c = "I" -> "i" [] c = "M" -> "m" [] c = "A" -> "a"
      [] c = "G" -> "g" [] c = "E" -> "e" [] OTHER -> c

Lit(c) == [kind |-> "one", neg |-> FALSE, chars |-> {c}, group |-> FALSE]
OneOf(s) == [kind |-> "one", neg |-> FALSE, chars |-> s, group |-> FALSE]
Star(s) == [kind |-> "star", neg |-> FALSE, chars |-> s, group |-> FALSE]
GroupPlusNot(s) == [kind |-> "plus", neg |-> TRUE, chars |-> s, group |-> TRUE]

\* r'=@IMAGE\s*\(\s*["\']([^"\']+)["\']\s*\)'
pattern ==
    << Lit("="), Lit("@"), Lit("I"), Lit("M"), Lit("A"), Lit("G"), Lit("E"),
       Star(Whitespace), Lit("("), Star(Whitespace), OneOf(Quotes),
       GroupPlusNot(Quotes), OneOf(Quotes), Star(Whitespace), Lit(")") >>

InClass(c, e) ==
    LET hit == \E d \in e.chars : Lower(d) = Lower(c)
    IN  IF e.neg THEN ~hit ELSE hit

NoMatch == [ok |-> FALSE, start |-> 0, end |-> 0, url |-> << >>]

\* length of the longest run of characters of class e starting at text[i]
RECURSIVE RunLen(_, _, _)
RunLen(text, i, e) ==
    IF i <= Len(text) /\ InClass(text[i], e)
    THEN 1 + RunLen(text, i + 1, e)
    ELSE 0

\* match pat[k..] at text[i..]; a repetition takes the longest run first and
\* gives characters back one at a time (greedy with backtracking)
RECURSIVE MatchHere(_, _, _, _, _)
RECURSIVE GiveBack(_, _, _, _, _, _, _)
MatchHere(pat, k, text, i, g) ==
    IF k > Len(pat)
    THEN [ok |-> TRUE, start |-> 0, end |-> i, url |-> g]
    ELSE LET e == pat[k] IN
         IF e.kind = "one"
         THEN IF i <= Len(text) /\ InClass(text[i], e)
              THEN MatchHere(pat, k + 1, text, i + 1, g)
              ELSE NoMatch
         ELSE GiveBack(pat, k, text, i, g, RunLen(text, i, e),
                       IF e.kind = "plus" THEN 1 ELSE 0)

GiveBack(pat, k, text, i, g, n, least) ==
    IF n < least
    THEN NoMatch
    ELSE LET g2 == IF pat[k].group THEN SubSeq(text, i, i + n - 1) ELSE g
             m == MatchHere(pat, k + 1, text, i + n, g2)
         IN  IF m.ok THEN m
             ELSE GiveBack(pat, k, text, i, g, n - 1, least)

\* re.search(pat, text[i..]): the leftmost start at which pat matches
RECURSIVE SearchFrom(_, _, _)
SearchFrom(pat, text, i) ==
    IF i > Len(text) + 1
    THEN NoMatch
    ELSE LET m == MatchHere(pat, 1, text, i, << >>)
         IN  IF m.ok THEN [m EXCEPT !.start = i]
             ELSE SearchFrom(pat, text, i + 1)

re_search(pat, text) == SearchFrom(pat, text, 1)

\* the replacement template r'=IMAGE("\1")'
Expand(url) == << "=", "I", "M", "A", "G", "E", "(", "\"" >> \o url \o << "\"", ")" >>

\* re.sub(pat, r'=IMAGE("\1")', text): every non-overlapping match, left to right
RECURSIVE SubFrom(_, _, _)
SubFrom(pat, text, i) ==
    LET m == SearchFrom(pat, text, i)
    IN  IF ~m.ok
        THEN SubSeq(text, i, Len(text))
        ELSE SubSeq(text, i, m.start - 1) \o Expand(m.url)
             \o SubFrom(pat, text, m.end)

re_sub(pat, text) == SubFrom(pat, text, 1)

(***************************************************************************)
(* Cell values                                                             *)
(***************************************************************************)
\* a cell value is None, a number or a string
None == [kind |-> "none", text |-> << >>]
Num == [kind |-> "num", text |-> << "7" >>]
Str(s) == [kind |-> "str", text |-> s]

\* `cell.value and isinstance(cell.value, str)`
IsText(v) == v.kind = "str" /\ v.text # << >>

\* the match of line 73, or NoMatch for a value the guard of line 71 skips
CellMatch(v) == IF IsText(v) THEN re_search(pattern, v.text) ELSE NoMatch


(***************************************************************************)
(* The workbook                                                            *)
(***************************************************************************)
Sheets == 1 .. NumSheets
Rows == 1 .. NumRows
Cols == 1 .. NumCols
Cells == Sheets \X Rows \X Cols
NumCells == NumSheets * NumRows * NumCols

\* the order of `for sheet_name in workbook.sheetnames`, `for row in
\* worksheet.iter_rows()`, `for cell in row`
CellOrder(i) ==
    << ((i - 1) \div (NumRows * NumCols)) + 1,
       (((i - 1) \div NumCols) % NumRows) + 1,
       ((i - 1) % NumCols) + 1 >>

\* cell.column_letter
column_letter(c) == << "A", "B", "C", "D", "E", "F" >>[c]

\* f"{cell.column_letter}{cell.row}"
Address(c) == << column_letter(c[3]), c[2] >>

Max(a, b) == IF a >= b THEN a ELSE b
Min(a, b) == IF a <= b THEN a ELSE b
Range(q) == {q[k] : k \in 1 .. Len(q)}

\* a dimension that is not set (None); `height or 15` treats 0 the same way
NoDim == 0
\* heights and widths are kept in hundredths, so that 0.75 and 0.15 stay exact
DefaultHeight == 1500
DefaultWidth == 800
HeightPerPixel == 75
WidthPerPixel == 15
DefaultMaxImageSize == 200

(***************************************************************************)
(* Inputs                                                                  *)
(***************************************************************************)
Token == << "@", "I", "M", "A", "G", "E" >>
TokenMixed == << "@", "i", "m", "A", "g", "e" >>

\* =@IMAGE("u")
Formula1 == << "=" >> \o Token \o << "(", "\"", "u", "\"", ")" >>
\* x=@imAge ( 'v' )=@IMAGE("w")
Formula2 == << "x", "=" >> \o TokenMixed
            \o << " ", "(", " ", "'", "v", "'", " ", ")", "=" >> \o Token
            \o << "(", "\"", "w", "\"", ")" >>
\* =@IMAGE("=@IMAGE(")")
FormulaNested == << "=" >> \o Token \o << "(", "\"", "=" >> \o Token
                 \o << "(", "\"", ")", "\"", ")" >>
\* = @IMAGE( "u" ), the third form the help text lists
FormulaSpaced == << "=", " " >> \o Token
                 \o << "(", " ", "\"", "u", "\"", " ", ")" >>
\* =IMAGE("u")
FormulaPlain == << "=", "I", "M", "A", "G", "E", "(", "\"", "u", "\"", ")" >>

\* =@IMAGE<tab>('u")
FormulaTab == << "=" >> \o Token \o << "\t", "(", "'", "u", "\"", ")" >>

CellValues ==
    { None, Num, Str(<< >>), Str(FormulaPlain), Str(Formula1), Str(Formula2),
      Str(FormulaNested), Str(FormulaSpaced), Str(FormulaTab) }

\* sequences over S of length at most n
SeqsUpTo(S, n) == UNION { [1 .. k -> S] : k \in 0 .. n }

\* texts laid out as a formula, with every part varied
FormulaTexts ==
    { pre \o << "=" >> \o w0 \o tok \o w1 \o << "(" >> \o w2 \o << q1 >>
          \o url \o << q2 >> \o w3 \o << ")" >> \o suf :
        pre \in { << >>, << "x" >> },
        w0 \in SeqsUpTo({" "}, MaxWs),
        tok \in { Token, TokenMixed, << "I", "M", "A", "G", "E" >> },
        w1 \in SeqsUpTo({" "}, MaxWs),
        w2 \in SeqsUpTo({" "}, MaxWs),
        q1 \in Quotes,
        url \in SeqsUpTo({"u", " "}, MaxUrlLen),
        q2 \in Quotes,
        w3 \in SeqsUpTo({" "}, MaxWs),
        suf \in { << >>, << "x" >> } }

MatcherInputs == CellValues \cup { Str(t) : t \in FormulaTexts }

WorkbookValues ==
    { Str(FormulaPlain), Str(Formula2), Str(FormulaNested) }

\* row height and column width the uploaded sheets start with
InitialDims == { << NoDim, NoDim >>, << 6000, 1000 >> }
MaxImageSizes == {100}
NaturalSizes == { << 400, 200 >>, << 40, 60 >> }

\* workbooks with at most MaxFilled non-empty cells
WorkbookCells ==
    UNION { { [c \in Cells |-> IF c \in D THEN g[c] ELSE None] :
              g \in [D -> WorkbookValues] } :
            D \in {E \in SUBSET Cells : Cardinality(E) <= MaxFilled} }

(***************************************************************************)
(* Change records                                                          *)
(***************************************************************************)
Success == << "Success" >>
ErrorStatus_AsSuccess(detail) == << "Success" >>
ErrorStatus(detail) == << "Error: " >> \o detail

\* download_image's error_msg for each way the fetch fails
FetchFailures == {"network", "invalid_image", "unexpected"}
error_msg(kind) ==
    CASE kind = "network" -> << "Download failed: ", "ConnectionError" >>
      [] kind = "invalid_image" -> << "Invalid image format: ", "UnidentifiedImageError" >>
      [] kind = "unexpected" -> << "Unexpected error: ", "OSError" >>

\* the statement of the try block of lines 83-117 that raises:
\*   create      ExcelImage(temp_path) or the resize, lines 85-89
\*   anchor      after the cell was cleared (line 92): lines 95-96
\*   row_height  after worksheet.add_image: lines 99-102
\*   col_width   after the row height was set: lines 103-106
EmbedFailures == {"create", "anchor", "row_height", "col_width"}

ChangeRecord(c, original, action, url, status) ==
    [ sheet |-> c[1], cell |-> Address(c), original |-> original,
      action |-> action, url |-> url, status |-> status ]

\* history entry: how the fetch and the embed of one matched cell ended, and
\* the natural size of the image if one was attached to the sheet
Outcome(fetch, embed, natural) ==
    [fetch |-> fetch, embed |-> embed, natural |-> natural]

NoFetch == [path |-> 0, width |-> 0, height |-> 0]
NoOutput == [set |-> FALSE, cells |-> << >>, images |-> << >>, changes |-> << >>]


(***************************************************************************)
(* process_excel_with_images                                               *)
(***************************************************************************)
Init ==
    /\ file_content \in [ cells : WorkbookCells, dims : InitialDims ]
    /\ insert_images = FALSE
    /\ max_image_size = DefaultMaxImageSize
    /\ cells = file_content.cells
    /\ row_height = [d \in Sheets \X Rows |-> file_content.dims[1]]
    /\ col_width = [d \in Sheets \X Cols |-> file_content.dims[2]]
    /\ images = [s \in Sheets |-> << >>]
    /\ changes = << >>
    /\ temp_files = << >>
    /\ tempFs = {}
    /\ pc = "idle"
    /\ idx = 1
    /\ fetched = NoFetch
    /\ outcomes = << >>
    /\ textOnlyOutput = NoOutput
    /\ cellText = None
    /\ found = NoMatch
    /\ replaced = << >>
    /\ mpc = "off"

cur == CellOrder(idx)
original_value == cells[cur].text
match == CellMatch(cells[cur])
\* the temporary file of the fetch made for the cell at position idx
temp_path == idx

\* line 145: new_value of the TextOnly branch
FormulaOnlyValue == Str(re_sub(pattern, original_value))

\* line 134: the cell value after a failed download
DownloadFailedValue_Untouched == cells[cur]
DownloadFailedValue == Str(re_sub(pattern, original_value))

\* line 121: the cell value after a failed insertion
InsertionFailedValue == Str(re_sub(pattern, original_value))

\* lines 117 and 131: temp_files.append(temp_path)
Registered_Dropped(path) == temp_files
Registered(path) == Append(temp_files, path)

\* worksheet.row_dimensions[cell.row]
RowKey == << cur[1], cur[2] >>

\* worksheet.column_dimensions[cell.column_letter]
ColKey_ByRow == << cur[1], cur[2] >>
ColKey == << cur[1], cur[3] >>

\* main() calls process_excel_with_images(file_content, insert_images,
\* max_image_size); lines 56-58 load the workbook and start the lists
Call(mode, size) ==
    /\ pc \in {"idle", "returned", "raised"}
    /\ insert_images' = mode
    /\ max_image_size' = IF mode THEN size ELSE DefaultMaxImageSize
    /\ cells' = file_content.cells
    /\ row_height' = [d \in Sheets \X Rows |-> file_content.dims[1]]
    /\ col_width' = [d \in Sheets \X Cols |-> file_content.dims[2]]
    /\ images' = [s \in Sheets |-> << >>]
    /\ changes' = << >>
    /\ temp_files' = << >>
    /\ tempFs' = {}
    /\ pc' = "scan"
    /\ idx' = 1
    /\ fetched' = NoFetch
    /\ outcomes' = << >>
    /\ UNCHANGED << file_content, textOnlyOutput >>
    /\ UNCHANGED mvars

\* lines 71-74: the cell is not text or does not match
SkipCell ==
    /\ pc = "scan" /\ idx <= NumCells
    /\ ~match.ok
    /\ idx' = idx + 1
    /\ UNCHANGED << file_content, insert_images, max_image_size, cells,
                    row_height, col_width, images, changes, temp_files,
                    tempFs, pc, fetched, outcomes, textOnlyOutput >>
    /\ UNCHANGED mvars

\* lines 143-154: insert_images is off
ReplaceFormula ==
    /\ pc = "scan" /\ idx <= NumCells
    /\ match.ok /\ ~insert_images
    /\ cells' = [cells EXCEPT ![cur] = FormulaOnlyValue]
    /\ changes' = Append(changes,
                    ChangeRecord(cur, original_value, "Formula replaced",
                                 match.url, Success))
    /\ outcomes' = Append(outcomes, Outcome("none", "none", << 0, 0 >>))
    /\ idx' = idx + 1
    /\ UNCHANGED << file_content, insert_images, max_image_size, row_height,
                    col_width, images, temp_files, tempFs, pc, fetched,
                    textOnlyOutput >>
    /\ UNCHANGED mvars

FetchFailed_Raises(kind, leaked) ==
    /\ pc = "scan" /\ idx <= NumCells
    /\ match.ok /\ insert_images
    /\ leaked => kind = "unexpected"
    /\ tempFs' = (IF leaked THEN tempFs \cup {temp_path} ELSE tempFs)
                   \ Range(temp_files)
    /\ pc' = "raised"
    /\ UNCHANGED << file_content, insert_images, max_image_size, cells,
                    row_height, col_width, images, changes, temp_files, idx,
                    fetched, outcomes, textOnlyOutput >>
    /\ UNCHANGED mvars

\* line 80 returns (False, "", error_msg), then lines 132-142.
\* download_image unlinks the temporary file of an invalid image (line 44),
\* creates none when the request fails (line 47), and on any other
\* exception (line 49) returns without unlinking: the file is left behind
\* (leaked) when the exception came from lines 31-32, after its creation.
FetchFailed(kind, leaked) ==
    /\ pc = "scan" /\ idx <= NumCells
    /\ match.ok /\ insert_images
    /\ leaked => kind = "unexpected"
    /\ tempFs' = IF leaked THEN tempFs \cup {temp_path} ELSE tempFs
    /\ cells' = [cells EXCEPT ![cur] = DownloadFailedValue]
    /\ changes' = Append(changes,
                    ChangeRecord(cur, original_value,
                                 "Formula replaced (download failed)",
                                 match.url, ErrorStatus(error_msg(kind))))
    /\ outcomes' = Append(outcomes, Outcome(kind, "none", << 0, 0 >>))
    /\ idx' = idx + 1
    /\ UNCHANGED << file_content, insert_images, max_image_size, row_height,
                    col_width, images, temp_files, pc, fetched,
                    textOnlyOutput >>
    /\ UNCHANGED mvars

\* line 80 returns (True, temp_file.name, ""): lines 30-42 wrote the image
FetchSucceeded(size) ==
    /\ pc = "scan" /\ idx <= NumCells
    /\ match.ok /\ insert_images
    /\ tempFs' = tempFs \cup {temp_path}
    /\ fetched' = [path |-> temp_path, width |-> size[1], height |-> size[2]]
    /\ pc' = "embed"
    /\ UNCHANGED << file_content, insert_images, max_image_size, cells,
                    row_height, col_width, images, changes, temp_files, idx,
                    outcomes, textOnlyOutput >>
    /\ UNCHANGED mvars

excel_img_KeepsAspect ==
    [ anchor |-> Address(cur),
      width |-> Min(fetched.width, max_image_size),
      height |-> IF fetched.width > max_image_size
                 THEN (fetched.height * max_image_size) \div fetched.width
                 ELSE fetched.height ]

\* lines 85-89: ExcelImage(temp_path), each axis clamped on its own
excel_img ==
    [ anchor |-> Address(cur),
      width |-> Min(fetched.width, max_image_size),
      height |-> Min(fetched.height, max_image_size) ]

\* lines 99-102
RowHeightFor(img) ==
    Max(IF row_height[RowKey] = NoDim THEN DefaultHeight
        ELSE row_height[RowKey],
        img.height * HeightPerPixel)

\* lines 103-106
ColWidthFor(img) ==
    Max(IF col_width[ColKey] = NoDim THEN DefaultWidth
        ELSE col_width[ColKey],
        img.width * WidthPerPixel)

\* lines 83-117 run to the end
EmbedSucceeded ==
    /\ pc = "embed"
    /\ cells' = [cells EXCEPT ![cur] = Str(<< >>)]
    /\ images' = [images EXCEPT ![cur[1]] = Append(@, excel_img)]
    /\ row_height' = [row_height EXCEPT ![RowKey] = RowHeightFor(excel_img)]
    /\ col_width' = [col_width EXCEPT ![ColKey] = ColWidthFor(excel_img)]
    /\ changes' = Append(changes,
                    ChangeRecord(cur, original_value, "Image inserted",
                                 match.url, Success))
    /\ temp_files' = Registered(fetched.path)
    /\ outcomes' = Append(outcomes, Outcome("ok", "ok", << fetched.width, fetched.height >>))
    /\ fetched' = NoFetch
    /\ pc' = "scan"
    /\ idx' = idx + 1
    /\ UNCHANGED << file_content, insert_images, max_image_size, tempFs,
                    textOnlyOutput >>
    /\ UNCHANGED mvars

\* a statement of lines 85-106 raises: what ran before it stays done, then
\* the handler of lines 119-131 runs
EmbedFailed(at) ==
    /\ pc = "embed"
    /\ images' = IF at \in {"row_height", "col_width"}
                 THEN [images EXCEPT ![cur[1]] = Append(@, excel_img)]
                 ELSE images
    /\ row_height' = IF at = "col_width"
                     THEN [row_height EXCEPT ![RowKey] = RowHeightFor(excel_img)]
                     ELSE row_height
    /\ cells' = [cells EXCEPT ![cur] = InsertionFailedValue]
    /\ changes' = Append(changes,
                    ChangeRecord(cur, original_value,
                                 "Formula replaced (image insertion failed)",
                                 match.url, ErrorStatus(<< at >>)))
    /\ temp_files' = Registered(fetched.path)
    /\ outcomes' = Append(outcomes,
                     Outcome("ok", at,
                             IF at \in {"row_height", "col_width"}
                             THEN << fetched.width, fetched.height >>
                             ELSE << 0, 0 >>))
    /\ fetched' = NoFetch
    /\ pc' = "scan"
    /\ idx' = idx + 1
    /\ UNCHANGED << file_content, insert_images, max_image_size, col_width,
                    tempFs, textOnlyOutput >>
    /\ UNCHANGED mvars

\* lines 163-170: the finally block unlinks every registered path
CleanedUp == tempFs \ Range(temp_files)

\* lines 156-161, then the finally block
SaveSucceeded ==
    /\ pc = "scan" /\ idx > NumCells
    /\ tempFs' = CleanedUp
    /\ pc' = "returned"
    /\ textOnlyOutput' =
         IF insert_images THEN textOnlyOutput
         ELSE [set |-> TRUE, cells |-> cells, images |-> images,
               changes |-> changes]
    /\ UNCHANGED << file_content, insert_images, max_image_size, cells,
                    row_height, col_width, images, changes, temp_files, idx,
                    fetched, outcomes >>
    /\ UNCHANGED mvars

\* workbook.save raises (line 158), then the finally block
SaveFailed ==
    /\ pc = "scan" /\ idx > NumCells
    /\ tempFs' = CleanedUp
    /\ pc' = "raised"
    /\ UNCHANGED << file_content, insert_images, max_image_size, cells,
                    row_height, col_width, images, changes, temp_files, idx,
                    fetched, outcomes, textOnlyOutput >>
    /\ UNCHANGED mvars

Next ==
    \/ \E mode \in BOOLEAN, size \in MaxImageSizes : Call(mode, size)
    \/ SkipCell
    \/ ReplaceFormula
    \/ \E kind \in FetchFailures, leaked \in BOOLEAN : FetchFailed(kind, leaked)
    \/ \E size \in NaturalSizes : FetchSucceeded(size)
    \/ EmbedSucceeded
    \/ \E at \in EmbedFailures : EmbedFailed(at)
    \/ SaveSucceeded
    \/ SaveFailed

Spec == Init /\ [][Next]_vars


(***************************************************************************)
(* The matcher and the text rewrite on their own                           *)
(***************************************************************************)
EmptyWorkbook == [cells |-> [c \in Cells |-> None], dims |-> << NoDim, NoDim >>]

MatchInit ==
    /\ cellText \in MatcherInputs
    /\ found = NoMatch
    /\ replaced = << >>
    /\ mpc = "cell"
    /\ file_content = EmptyWorkbook
    /\ insert_images = FALSE
    /\ max_image_size = DefaultMaxImageSize
    /\ cells = file_content.cells
    /\ row_height = [d \in Sheets \X Rows |-> NoDim]
    /\ col_width = [d \in Sheets \X Cols |-> NoDim]
    /\ images = [s \in Sheets |-> << >>]
    /\ changes = << >>
    /\ temp_files = << >>
    /\ tempFs = {}
    /\ pc = "off"
    /\ idx = 1
    /\ fetched = NoFetch
    /\ outcomes = << >>
    /\ textOnlyOutput = NoOutput

\* lines 71-75 on one cell value
Search ==
    /\ mpc = "cell"
    /\ found' = CellMatch(cellText)
    /\ mpc' = IF CellMatch(cellText).ok THEN "matched" ELSE "skipped"
    /\ UNCHANGED << cellText, replaced >>
    /\ UNCHANGED wbvars

\* line 145 on the matched text
Substitute ==
    /\ mpc = "matched"
    /\ replaced' = re_sub(pattern, cellText.text)
    /\ mpc' = "replaced"
    /\ UNCHANGED << cellText, found >>
    /\ UNCHANGED wbvars

MatchNext == Search \/ Substitute

MatchSpec == MatchInit /\ [][MatchNext]_vars

(***************************************************************************)
(* C6                                                                      *)
(***************************************************************************)
\* the pattern as described: whitespace is also allowed after the equals sign
DescribedPattern ==
    << Lit("="), Star(Whitespace) >> \o SubSeq(pattern, 2, Len(pattern))

DescribedMatch(v) ==
    IF IsText(v) THEN re_search(DescribedPattern, v.text) ELSE NoMatch

\* C6: the matcher finds a match exactly in the texts that contain the
\* described pattern (whitespace allowed after "=", as in = @IMAGE( "link" )),
\* and then returns the quoted URL of the first such match; for any other
\* text or a non-text value it returns none.
C6_MatcherAsDescribed ==
    mpc \in {"matched", "skipped"} =>
        /\ found.ok = DescribedMatch(cellText).ok
        /\ found.url = DescribedMatch(cellText).url


(***************************************************************************)
(* Properties of a call                                                    *)
(***************************************************************************)
InCall == pc \in {"scan", "embed", "returned", "raised"}
Finished == pc \in {"returned", "raised"}

\* the match of every value a cell of an uploaded workbook can hold
UploadMatch == [v \in WorkbookValues \cup {None} |-> CellMatch(v)]

\* the cell at position k of the uploaded workbook matches the pattern
IsMatchedAt(k) == UploadMatch[file_content.cells[CellOrder(k)]].ok

\* positions of the matched cells of the uploaded workbook, in scan order
MatchedPositions == SelectSeq([k \in 1 .. NumCells |-> k], IsMatchedAt)

\* the cell a change record is about, given the matched positions
RecordCell(mp, j) == CellOrder(mp[j])

\* the placements of a sheet anchored at an address
PlacementsAt(sheet, addr) ==
    {k \in 1 .. Len(images[sheet]) : images[sheet][k].anchor = addr}

\* C1: whatever the fetch and embed outcomes, the records made so far are
\* one per matched cell already passed, in scan order, and a call that has
\* ended has passed every cell: the number of records equals the number of
\* matched cells.
C1_OneRecordPerMatchedCell ==
    InCall =>
        LET mp == MatchedPositions IN
        /\ Len(changes) = Cardinality({k \in Range(mp) : k < idx})
        /\ \A j \in 1 .. Len(changes) :
              /\ changes[j].sheet = RecordCell(mp, j)[1]
              /\ changes[j].cell = Address(RecordCell(mp, j))
        /\ Finished => idx = NumCells + 1 /\ Len(changes) = Len(mp)

C1_Witness ==
    /\ pc = "returned" /\ insert_images
    /\ Len(changes) = 2
    /\ outcomes[1].fetch \in FetchFailures
    /\ outcomes[2].embed \in EmbedFailures \cup {"ok"}

C3_NoTempFileOutlivesCall == Finished => tempFs = {}

\* C4: after processing, a matched cell holds the text with every match
\* replaced (not the original, not empty) or, after an insertion, the empty
\* text with an image attached, and in no case still matches the pattern.
C4_NoCellKeepsThePattern ==
    InCall =>
        \A j \in 1 .. Len(changes) :
            LET c == RecordCell(MatchedPositions, j) IN
            /\ IF changes[j].action = "Image inserted"
               THEN /\ cells[c] = Str(<< >>)
                    /\ PlacementsAt(c[1], Address(c)) # {}
               ELSE /\ cells[c] = Str(re_sub(pattern, changes[j].original))
                    /\ cells[c].text # changes[j].original
                    /\ cells[c].text # << >>
            /\ ~CellMatch(cells[c]).ok

\* C5: action and status of each record follow from the mode and from how
\* the fetch and the embed ended; status is Success exactly for a TextOnly
\* replacement and for an inserted image.
C5_ActionAndStatusByOutcome ==
    InCall =>
        /\ Len(outcomes) = Len(changes)
        /\ \A j \in 1 .. Len(changes) :
            LET r == changes[j]
                o == outcomes[j]
            IN  /\ ~insert_images =>
                      r.action = "Formula replaced" /\ r.status = Success
                /\ (insert_images /\ o.fetch \in FetchFailures) =>
                      /\ r.action = "Formula replaced (download failed)"
                      /\ r.status = << "Error: " >> \o error_msg(o.fetch)
                      /\ o.fetch = "network" => r.status[2] = "Download failed: "
                /\ (insert_images /\ o.fetch = "ok" /\ o.embed = "ok") =>
                      r.action = "Image inserted" /\ r.status = Success
                /\ (insert_images /\ o.fetch = "ok" /\ o.embed \in EmbedFailures) =>
                      /\ r.action = "Formula replaced (image insertion failed)"
                      /\ r.status = << "Error: ", o.embed >>
                /\ r.status = Success <=>
                      (~insert_images \/ (o.fetch = "ok" /\ o.embed = "ok"))

C5_Witness ==
    /\ Finished /\ insert_images /\ Len(changes) = 2
    /\ outcomes[1].fetch = "network"
    /\ outcomes[2].embed \in EmbedFailures

AllFetchesFailed ==
    \A j \in 1 .. Len(outcomes) : outcomes[j].fetch \in FetchFailures

\* C7: an EmbedImages call in which every fetch failed returns the cell
\* values of the TextOnly call on the same upload, no placement, and records
\* that agree with the TextOnly records in number, order, sheet, cell,
\* original text and URL.
C7_AllFetchesFailedIsTextOnly ==
    (pc = "returned" /\ insert_images /\ AllFetchesFailed /\ textOnlyOutput.set) =>
        /\ cells = textOnlyOutput.cells
        /\ \A s \in Sheets : images[s] = << >>
        /\ images = textOnlyOutput.images
        /\ Len(changes) = Len(textOnlyOutput.changes)
        /\ \A j \in 1 .. Len(changes) :
              /\ changes[j].sheet = textOnlyOutput.changes[j].sheet
              /\ changes[j].cell = textOnlyOutput.changes[j].cell
              /\ changes[j].original = textOnlyOutput.changes[j].original
              /\ changes[j].url = textOnlyOutput.changes[j].url

C7_Witness ==
    /\ pc = "returned" /\ insert_images /\ AllFetchesFailed
    /\ textOnlyOutput.set
    /\ Len(changes) = 2
    /\ changes[1].action # textOnlyOutput.changes[1].action

NotMatched(c) == ~UploadMatch[file_content.cells[c]].ok
NoMatchedCell == \A c \in Cells : NotMatched(c)

WorkbookUntouched ==
    /\ cells = file_content.cells
    /\ \A d \in Sheets \X Rows : row_height[d] = file_content.dims[1]
    /\ \A d \in Sheets \X Cols : col_width[d] = file_content.dims[2]
    /\ \A s \in Sheets : images[s] = << >>

\* C8 as stated: a cell that does not match keeps its value and the height
\* of its row and the width of its column, whatever happens to the matched
\* cells; a workbook without a matching cell gives no record and no change.
C8_NonMatchingCellsUntouched ==
    InCall =>
        /\ \A c \in Cells :
              NotMatched(c) =>
                  /\ cells[c] = file_content.cells[c]
                  /\ row_height[<< c[1], c[2] >>] = file_content.dims[1]
                  /\ col_width[<< c[1], c[3] >>] = file_content.dims[2]
        /\ NoMatchedCell => changes = << >> /\ WorkbookUntouched

\* C8 amended: a cell that does not match keeps its value; a row keeps its
\* height and a column its width when no matched cell lies in it; a workbook
\* without a matching cell gives no record and no change.
C8_NonMatchingFrame ==
    InCall =>
        /\ \A c \in Cells : NotMatched(c) => cells[c] = file_content.cells[c]
        /\ \A d \in Sheets \X Rows :
              (\A col \in Cols : NotMatched(<< d[1], d[2], col >>)) =>
                  row_height[d] = file_content.dims[1]
        /\ \A d \in Sheets \X Cols :
              (\A row \in Rows : NotMatched(<< d[1], row, d[2] >>)) =>
                  col_width[d] = file_content.dims[2]
        /\ NoMatchedCell => changes = << >> /\ WorkbookUntouched

C8_Witness ==
    /\ pc = "returned" /\ insert_images
    /\ \E c \in Cells :
          /\ NotMatched(c) /\ IsText(file_content.cells[c])
          /\ cells[c] = file_content.cells[c]
          /\ row_height[<< c[1], c[2] >>] # file_content.dims[1]
          /\ col_width[<< c[1], c[3] >>] = file_content.dims[2]

\* C9: a record with action "Image inserted" means the cell text is empty
\* and exactly one placement is anchored at the cell, as wide as the smaller
\* of natural width and max_image_size and as high as the smaller of natural
\* height and max_image_size.
C9_InsertedImagePlacement ==
    InCall =>
        \A j \in 1 .. Len(changes) :
            changes[j].action = "Image inserted" =>
                LET c == RecordCell(MatchedPositions, j)
                    at == PlacementsAt(c[1], Address(c))
                    nat == outcomes[j].natural
                IN  /\ cells[c].text = << >>
                    /\ Cardinality(at) = 1
                    /\ \A k \in at :
                          /\ images[c[1]][k].width =
                               (IF nat[1] <= max_image_size THEN nat[1]
                                ELSE max_image_size)
                          /\ images[c[1]][k].height =
                               (IF nat[2] <= max_image_size THEN nat[2]
                                ELSE max_image_size)

C9_Witness ==
    /\ pc = "returned"
    /\ \E j \in 1 .. Len(changes) :
          /\ changes[j].action = "Image inserted"
          /\ outcomes[j].natural = << 400, 200 >>
          /\ \E s \in Sheets : \E k \in 1 .. Len(images[s]) :
                /\ images[s][k].anchor = changes[j].cell
                /\ s = changes[j].sheet
                /\ images[s][k].width = 100

\* C10: a cell has a placement added by the call exactly when its record
\* says "Image inserted"; a failed insertion leaves the normalized formula
\* and no placement at the cell.
C10_FailedEmbedLeavesNoPlacement ==
    InCall =>
        \A j \in 1 .. Len(changes) :
            LET c == RecordCell(MatchedPositions, j) IN
            /\ (PlacementsAt(c[1], Address(c)) # {}) <=>
                  (changes[j].action = "Image inserted")
            /\ changes[j].action = "Formula replaced (image insertion failed)" =>
                  cells[c] = Str(re_sub(pattern, changes[j].original))

====
